---- MODULE Spec2Model ----
(***************************************************************************)
(* Model of the recap generator of src/cli.py: the marker-file parser,     *)
(* the interval cursor, the three segment generators, the effect selector, *)
(* the planner loop of generate_recap, its transition placement, the       *)
(* render handoff and the cleanup.                                         *)
(*                                                                         *)
(* Times are integers in tenths of a second (0.1 s), the finest grain the  *)
(* code uses (the 0.1 s freeze extraction window).                         *)
(***************************************************************************)
EXTENDS Integers, Sequences, FiniteSets, TLC

VARIABLES
    lines,              \* the marker file: a sequence of lines
    file_readable,      \* can the marker file be opened and read
    video_openable,     \* does VideoFileClip(movie_path) succeed
    video_duration,     \* video.duration
    audio_path,         \* "none", "ok" (loads) or "bad" (AudioFileClip raises)
    audio_duration,     \* audio.duration when audio_path = "ok"
    pc,                 \* position of the run inside generate_recap
    video,              \* "none", "open" or "closed": the source video handle
    timestamps,         \* the parsed, sorted interval list
    parse_error,        \* read_timestamps re-raised (file unreadable)
    current_time,       \* the cursor
    total_duration,     \* accumulated timeline duration
    target_duration,
    effect_counts,      \* [normal, slow, freeze] counters
    total_clips,
    clips_with_transitions, \* the accepted segments, in order
    used_fallback,      \* line 212 was executed in some iteration
    loop_exit,          \* "none", "target", "rejected" or "memory"
    transition_indices, \* the boundaries sampled at lines 252-255
    i,                  \* loop index of the placement loop (line 258)
    final_clips,        \* the render instructions; each a sequence of segment indices
    closed,             \* indices of the segment handles closed so far
    handoff,            \* write_videofile was called
    outcome,            \* "running", "declined", "rendered" or "fatal"
    choice,             \* the last answer read at the confirmation prompt
    final_clip,         \* "none", "open" or "closed": the concatenated clip
    twin,               \* a second planner run over the same inputs and draws
    twin_indices,       \* the boundaries sampled by the second run
    next_ts,            \* result of a stand-alone cursor query
    min_gap             \* min_gap argument of the stand-alone cursor query

vars == <<lines, file_readable, video_openable, video_duration, audio_path,
          audio_duration, pc, video, timestamps, parse_error, current_time,
          total_duration, target_duration, effect_counts, total_clips,
          clips_with_transitions, used_fallback, loop_exit,
          transition_indices, i, final_clips, closed, handoff, outcome,
          choice, final_clip, twin, twin_indices, next_ts, min_gap>>

(***************************************************************************)
(* Program constants, in tenths of a second.                               *)
(***************************************************************************)
MIN_GAP == 20
FREEZE_DURATION == 30
FREEZE_EXTRACT == 1
SLOW_DURATION == 20
NORMAL_MIN == 20
NORMAL_MAX == 30
MAX_TARGET == 600
CROSSFADE == 3
MAX_TRANSITIONS == 5

None == <<>>

(***************************************************************************)
(* Bounds of the model.                                                    *)
(***************************************************************************)
DurStep == 10           \* grid of the random.uniform(2, 3) draw, in 0.1 s
NumMarkers == 6         \* markers of the long marker file
MaxLines == 3           \* longest marker file of the parser specification
MaxCursor == 21         \* largest cursor (in seconds) of the cursor specification

(***************************************************************************)
(* Marker-file text.  A time string is the sequence of its ':'-separated   *)
(* fields; a field is an integer literal, a decimal literal (value in      *)
(* tenths) or text that is no number.  A line is the sequence of its       *)
(* '-->'-separated parts.                                                  *)
(***************************************************************************)
IntField(n) == [k |-> "int", v |-> n]
DecField(n) == [k |-> "dec", v |-> n]
BadField == [k |-> "bad", v |-> 0]

ValueError == [ok |-> FALSE, v |-> 0]
Value(n) == [ok |-> TRUE, v |-> n]

\* int(x): only an integer literal converts
int(f) == IF f.k = "int" THEN Value(f.v) ELSE ValueError

\* float(x): integer and decimal literals convert; the value in tenths
float(f) == IF f.k = "int" THEN Value(10 * f.v)
            ELSE IF f.k = "dec" THEN Value(f.v)
            ELSE ValueError

time_str_to_seconds(time_str) ==
    IF Len(time_str) # 3 THEN ValueError
    ELSE LET h == int(time_str[1])
             m == int(time_str[2])
             s == float(time_str[3])
         IN IF h.ok /\ m.ok /\ s.ok
            THEN Value(h.v * 36000 + m.v * 600 + s.v)
            ELSE ValueError

\* sorted(timestamps, key=lambda x: x[0]): a stable sort on the start
RECURSIVE InsertByStart(_, _)
InsertByStart(sorted_seq, x) ==
    IF sorted_seq = <<>> THEN <<x>>
    ELSE LET last == sorted_seq[Len(sorted_seq)]
         IN IF last[1] <= x[1]
            THEN Append(sorted_seq, x)
            ELSE Append(InsertByStart(SubSeq(sorted_seq, 1, Len(sorted_seq) - 1), x), last)

RECURSIVE sorted(_)
sorted(seq) ==
    IF seq = <<>> THEN <<>>
    ELSE InsertByStart(sorted(SubSeq(seq, 1, Len(seq) - 1)), seq[Len(seq)])

\* variant: no len(parts) != 2 test, the first two parts are taken
ParseLine_firstTwo(acc, line, vd) ==
    IF Len(line) < 2 THEN acc
    ELSE LET start_sec == time_str_to_seconds(line[1])
             end_sec == time_str_to_seconds(line[2])
         IN IF ~start_sec.ok \/ ~end_sec.ok THEN acc
            ELSE IF start_sec.v >= vd THEN acc
            ELSE Append(acc, <<start_sec.v,
                               IF end_sec.v > vd THEN vd ELSE end_sec.v>>)

\* the body of the for loop of read_timestamps for one line: the list after it
ParseLine(acc, line, vd) ==
    IF Len(line) < 2 THEN acc              \* no "-->" in the line
    ELSE IF Len(line) # 2 THEN acc         \* len(parts) != 2: continue
    ELSE LET start_sec == time_str_to_seconds(line[1])
             end_sec == time_str_to_seconds(line[2])
         IN IF ~start_sec.ok \/ ~end_sec.ok THEN acc     \* except ValueError
            ELSE IF start_sec.v >= vd THEN acc
            ELSE Append(acc, <<start_sec.v,
                               IF end_sec.v > vd THEN vd ELSE end_sec.v>>)

RECURSIVE ParseLines(_, _)
ParseLines(file, vd) ==
    IF file = <<>> THEN <<>>
    ELSE ParseLine(ParseLines(SubSeq(file, 1, Len(file) - 1), vd), file[Len(file)], vd)

\* read_timestamps: [ok |-> FALSE] when the file cannot be read (re-raised)
read_timestamps(file, readable, vd) ==
    IF ~readable THEN [ok |-> FALSE, v |-> <<>>]
    ELSE [ok |-> TRUE, v |-> sorted(ParseLines(file, vd))]

(***************************************************************************)
(* Interval cursor.                                                        *)
(***************************************************************************)
\* variant: the cursor is left out of the comparison
IsValidTimestamp_noCursor(ts, cur, gap) == ts[1] >= gap

\* variant: a strict comparison
IsValidTimestamp_strict(ts, cur, gap) == ts[1] > cur + gap

IsValidTimestamp(ts, cur, gap) == ts[1] >= cur + gap

\* variant: the first interval of the list, valid or not
get_next_valid_timestamp_first(cur, tss, gap) ==
    IF tss = <<>> THEN None ELSE tss[1]

get_next_valid_timestamp(cur, tss, gap) ==
    LET valid_timestamps == SelectSeq(tss, LAMBDA ts : IsValidTimestamp(ts, cur, gap))
    IN IF valid_timestamps # <<>> THEN valid_timestamps[1] ELSE None

(***************************************************************************)
(* Segment generators.  A generator returns (clip, new_time) or            *)
(* (None, None); raises is the outcome of the collaborator call inside     *)
(* its try block.  A clip records its extraction window on the source      *)
(* timeline and its own duration (clip.duration).                          *)
(***************************************************************************)
Rejected == [ok |-> FALSE, clip |-> None, new_time |-> 0]

Min(a, b) == IF a <= b THEN a ELSE b

Clip(effect, start, end_time, duration) ==
    [effect |-> effect, start |-> start, ext |-> end_time - start, duration |-> duration]

\* variant: the generator returns the start of its window as the new cursor
NewTime_stale(start, duration) == start

\* the cursor value a generator returns for a window starting at start
NewTime(start, duration) == start + duration

apply_freeze_effect(vd, cur, tss, raises) ==
    LET next_timestamp == get_next_valid_timestamp(cur, tss, MIN_GAP)
    IN IF next_timestamp = None THEN Rejected
       ELSE LET freeze_start == next_timestamp[1]
                end_time == Min(freeze_start + FREEZE_EXTRACT, vd)
            IN IF freeze_start + FREEZE_EXTRACT >= vd THEN Rejected
               ELSE IF raises THEN Rejected
               \* freeze(clip, t=0, freeze_duration): the still frame, then the clip
               ELSE [ok |-> TRUE,
                     clip |-> Clip("freeze", freeze_start, end_time,
                                   FREEZE_DURATION + (end_time - freeze_start)),
                     new_time |-> NewTime(freeze_start, FREEZE_DURATION)]

apply_slow_motion_effect(vd, cur, tss, raises) ==
    LET next_timestamp == get_next_valid_timestamp(cur, tss, MIN_GAP)
    IN IF next_timestamp = None THEN Rejected
       ELSE LET slow_start == next_timestamp[1]
                end_time == Min(slow_start + SLOW_DURATION, vd)
            IN IF slow_start + SLOW_DURATION >= vd THEN Rejected
               ELSE IF raises THEN Rejected
               \* speedx with factor 0.5 doubles the duration
               ELSE [ok |-> TRUE,
                     clip |-> Clip("slow", slow_start, end_time,
                                   2 * (end_time - slow_start)),
                     new_time |-> NewTime(slow_start, SLOW_DURATION)]

generate_normal_clip(vd, cur, tss, duration, raises) ==
    LET next_timestamp == get_next_valid_timestamp(cur, tss, MIN_GAP)
    IN IF next_timestamp = None THEN Rejected
       ELSE LET start == next_timestamp[1]
                end_time == Min(start + duration, vd)
            IN IF start + duration >= vd THEN Rejected
               ELSE IF raises THEN Rejected
               ELSE [ok |-> TRUE,
                     clip |-> Clip("normal", start, end_time, end_time - start),
                     new_time |-> NewTime(start, duration)]

(***************************************************************************)
(* Effect selector (lines 196-214).  percentages[kind] < ceiling is        *)
(* compared exactly: count / total < 0.6 iff 10 * count < 6 * total, and   *)
(* count / total < 0.2 iff 5 * count < total.                              *)
(***************************************************************************)
\* variant: Normal is a candidate whatever its share
NormalBelowCeiling_always(counts, total) == TRUE

\* variant: shares computed over the count before the increment of line 196
CeilingEffects_stale(counts, total) ==
    (IF 10 * counts.normal < 6 * (total - 1) THEN <<"normal", "normal", "normal">> ELSE <<>>)
    \o (IF 5 * counts.slow < total - 1 THEN <<"slow">> ELSE <<>>)
    \o (IF 5 * counts.freeze < total - 1 THEN <<"freeze">> ELSE <<>>)

NormalBelowCeiling(counts, total) == 10 * counts.normal < 6 * total
SlowBelowCeiling(counts, total) == 5 * counts.slow < total
FreezeBelowCeiling(counts, total) == 5 * counts.freeze < total

CeilingEffects(counts, total) ==
    (IF NormalBelowCeiling(counts, total) THEN <<"normal", "normal", "normal">> ELSE <<>>)
    \o (IF SlowBelowCeiling(counts, total) THEN <<"slow">> ELSE <<>>)
    \o (IF FreezeBelowCeiling(counts, total) THEN <<"freeze">> ELSE <<>>)

FallbackEffects == <<"normal", "normal", "slow", "freeze">>

available_effects(counts, total) ==
    IF CeilingEffects(counts, total) = <<>>
    THEN FallbackEffects
    ELSE CeilingEffects(counts, total)

(***************************************************************************)
(* One iteration of the planner loop (lines 189-244) on a planner state p, *)
(* entered with p.total_duration < target.  mem1 and mem2 are the results  *)
(* of the two check_system_resources calls, pick is the index that         *)
(* random.choice draws, duration the random.uniform draw, raises the       *)
(* outcome of the generator's collaborator call.  The generators catch     *)
(* their own exceptions, so the handler of lines 242-244 is entered only   *)
(* after lines 230-232 have updated the state, and adds no other outcome.  *)
(***************************************************************************)
Planner(cur, total, counts, nclips, clips, fallback, exit) ==
    [current_time |-> cur, total_duration |-> total, effect_counts |-> counts,
     total_clips |-> nclips, clips |-> clips, used_fallback |-> fallback,
     loop_exit |-> exit]

NormalDurations == {d \in NORMAL_MIN..NORMAL_MAX : (d - NORMAL_MIN) % DurStep = 0}

Generate(effect_type, vd, cur, tss, duration, raises) ==
    IF effect_type = "slow" THEN apply_slow_motion_effect(vd, cur, tss, raises)
    ELSE IF effect_type = "freeze" THEN apply_freeze_effect(vd, cur, tss, raises)
    ELSE generate_normal_clip(vd, cur, tss, duration, raises)

\* variant: a rejection goes on to the next iteration
Rejection_retry(p, counts, tc, fb) ==
    Planner(p.current_time, p.total_duration, counts, tc, p.clips, fb, "none")

\* lines 227-228: the generator returned (None, None) and the loop breaks
Rejection(p, counts, tc, fb) ==
    Planner(p.current_time, p.total_duration, counts, tc, p.clips, fb, "rejected")

PlannerIteration(p, vd, tss, mem1, mem2, pick, duration, raises) ==
    IF ~mem1 /\ ~mem2
    THEN [p EXCEPT !.loop_exit = "memory"]
    ELSE LET tc == p.total_clips + 1
             avail == available_effects(p.effect_counts, tc)
             effect_type == avail[pick]
             g == Generate(effect_type, vd, p.current_time, tss, duration, raises)
             counts == [p.effect_counts EXCEPT ![effect_type] = @ + 1]
             fb == p.used_fallback \/ CeilingEffects(p.effect_counts, tc) = <<>>
         IN IF ~g.ok
            THEN Rejection(p, counts, tc, fb)
            ELSE Planner(g.new_time, p.total_duration + g.clip.duration, counts, tc,
                         Append(p.clips, g.clip), fb, "none")

PickRange(p) == 1..Len(available_effects(p.effect_counts, p.total_clips + 1))

InitialPlanner ==
    Planner(0, 0, [normal |-> 0, slow |-> 0, freeze |-> 0], 0, <<>>, FALSE, "none")

\* variant: no 60 s cap
TargetDuration_uncapped(apath, adur, vd) == IF apath = "ok" THEN adur ELSE vd

\* lines 174-183
TargetDuration(apath, adur, vd) ==
    IF apath = "ok" THEN Min(adur, MAX_TARGET) ELSE Min(vd, MAX_TARGET)

(***************************************************************************)
(* Transition placement (lines 251-273).                                   *)
(***************************************************************************)
\* min(int(0.4 * (n - 1)), 5); int() truncates towards zero
transition_count(n) ==
    IF n = 0 THEN 0 ELSE Min((4 * (n - 1)) \div 10, MAX_TRANSITIONS)

\* the possible results of random.sample(range(n - 1), count), as sets
Samples(n) ==
    {s \in SUBSET (0..(n - 2)) : Cardinality(s) = transition_count(n)}

\* apply_crossfade_transition(clips[k], clips[k + 1]): the composite of both,
\* or clip1 alone when the collaborator raises
apply_crossfade_transition(k, raises) ==
    IF raises THEN <<k>> ELSE <<k, k + 1>>

\* variant: the zero-segment test never fires
InsufficientMaterial_never(clips) == FALSE

\* line 246
InsufficientMaterial(clips) == clips = <<>>

(***************************************************************************)
(* Inputs.                                                                 *)
(***************************************************************************)
\* "00:MM:SS" for a whole number of seconds
T(sec) == <<IntField(0), IntField(sec \div 60), IntField(sec % 60)>>
\* "00:00:S.f" for a number of tenths
TDec(tenths) == <<IntField(0), IntField(0), DecField(tenths)>>
\* "00:00:xx"
TBad == <<IntField(0), IntField(0), BadField>>
\* "start --> end"
Marker(s, e) == <<T(s), T(e)>>

\* markers every 5 s: every generator finds the next marker usable
LongFile == [k \in 1..NumMarkers |-> Marker(5 * k, 5 * k + 3)]
LongVideoDuration == 10 * (5 * NumMarkers + 10)

\* the intervals [(5,8),(12,20)]
ExampleFile == <<Marker(5, 8), Marker(12, 20)>>

\* unsorted markers 2 s apart, among malformed and out-of-range lines
DenseFile ==
    << Marker(9, 11), <<T(1)>>, Marker(2, 4), <<TBad, T(5)>>, Marker(7, 3),
       <<TDec(45), T(6)>>, Marker(6, 30), Marker(25, 26), <<T(1), T(2), T(3)>>,
       Marker(12, 14), Marker(14, 16) >>

\* no marker starts min_gap after time 0
EarlyFile == <<Marker(1, 3)>>

Scenarios ==
    { [lines |-> LongFile, vd |-> LongVideoDuration, apath |-> "none", adur |-> 0],
      [lines |-> ExampleFile, vd |-> 250, apath |-> "ok", adur |-> 50],
      [lines |-> ExampleFile, vd |-> 250, apath |-> "bad", adur |-> 50],
      [lines |-> LongFile, vd |-> LongVideoDuration, apath |-> "ok", adur |-> 90],
      [lines |-> DenseFile, vd |-> 200, apath |-> "ok", adur |-> 700],
      [lines |-> DenseFile, vd |-> 200, apath |-> "ok", adur |-> 90],
      [lines |-> EarlyFile, vd |-> 100, apath |-> "none", adur |-> 0] }

(***************************************************************************)
(* The run of generate_recap.                                              *)
(***************************************************************************)
ThePlanner ==
    Planner(current_time, total_duration, effect_counts, total_clips,
            clips_with_transitions, used_fallback, loop_exit)

SetPlanner(p) ==
    /\ current_time' = p.current_time
    /\ total_duration' = p.total_duration
    /\ effect_counts' = p.effect_counts
    /\ total_clips' = p.total_clips
    /\ clips_with_transitions' = p.clips
    /\ used_fallback' = p.used_fallback
    /\ loop_exit' = p.loop_exit

\* the state of everything a run has not touched yet
FreshRun ==
    /\ video = "none"
    /\ timestamps = <<>>
    /\ parse_error = FALSE
    /\ current_time = InitialPlanner.current_time
    /\ total_duration = InitialPlanner.total_duration
    /\ effect_counts = InitialPlanner.effect_counts
    /\ total_clips = InitialPlanner.total_clips
    /\ clips_with_transitions = InitialPlanner.clips
    /\ used_fallback = InitialPlanner.used_fallback
    /\ loop_exit = InitialPlanner.loop_exit
    /\ target_duration = 0
    /\ transition_indices = {}
    /\ i = 0
    /\ final_clips = <<>>
    /\ closed = {}
    /\ handoff = FALSE
    /\ outcome = "running"
    /\ choice = "unset"
    /\ final_clip = "none"
    /\ twin = InitialPlanner
    /\ twin_indices = {}
    /\ next_ts = None
    /\ min_gap = MIN_GAP

Init ==
    /\ \E sc \in Scenarios :
          /\ lines = sc.lines
          /\ video_duration = sc.vd
          /\ audio_path = sc.apath
          /\ audio_duration = sc.adur
    /\ file_readable \in BOOLEAN
    /\ video_openable \in BOOLEAN
    /\ pc = "start"
    /\ FreshRun

inputs == <<lines, file_readable, video_openable, video_duration, audio_path,
            audio_duration>>
planner_vars == <<current_time, total_duration, effect_counts, total_clips,
                  clips_with_transitions, used_fallback, loop_exit>>
placement_vars == <<transition_indices, i, final_clips, closed>>
aux_vars == <<twin, twin_indices, next_ts, min_gap>>
io_vars == <<choice, final_clip>>

\* line 147: check_system_resources() before anything is opened
Preflight ==
    /\ pc = "start"
    /\ \E mem \in BOOLEAN : pc' = IF mem THEN "open" ELSE "prompt"
    /\ UNCHANGED <<inputs, video, timestamps, parse_error, target_duration,
                   planner_vars, placement_vars, handoff, outcome, aux_vars, io_vars>>

\* the answers the operator may type
Answers == {"y", "Y", "n", "N", "x", ""}

\* str.lower() on the answers
lower(answer) == IF answer = "Y" THEN "y" ELSE IF answer = "N" THEN "n" ELSE answer

\* variant: 'n' leaves the prompt loop like 'y' instead of returning
PromptTarget_fallthrough(c) == IF c = "n" \/ c = "y" THEN "open" ELSE "prompt"

\* lines 157-160: where the run goes after the answer c
PromptTarget(c) == IF c = "n" THEN "done" ELSE IF c = "y" THEN "open" ELSE "prompt"

\* lines 155-160: one pass of the confirmation prompt loop
Prompt ==
    /\ pc = "prompt"
    /\ \E answer \in Answers :
          /\ choice' = lower(answer)
          /\ pc' = PromptTarget(lower(answer))
          /\ outcome' = IF lower(answer) = "n" THEN "declined" ELSE outcome
    /\ UNCHANGED <<inputs, video, timestamps, parse_error, target_duration,
                   planner_vars, placement_vars, handoff, aux_vars, final_clip>>

\* lines 167-186: open the source, parse the markers, fix the target
Open ==
    /\ pc = "open"
    /\ IF ~video_openable
       THEN /\ pc' = "finally"
            /\ outcome' = "fatal"
            /\ UNCHANGED <<video, timestamps, parse_error, target_duration>>
       ELSE LET r == read_timestamps(lines, file_readable, video_duration)
            IN /\ video' = "open"
               /\ timestamps' = r.v
               /\ parse_error' = ~r.ok
               /\ IF r.ok
                  THEN /\ target_duration' =
                              TargetDuration(audio_path, audio_duration, video_duration)
                       /\ pc' = "loop"
                       /\ UNCHANGED outcome
                  ELSE /\ pc' = "finally"
                       /\ outcome' = "fatal"
                       /\ UNCHANGED target_duration
    /\ UNCHANGED <<inputs, planner_vars, placement_vars, handoff, aux_vars, io_vars>>

\* lines 188-244: one iteration of the planner loop
Iterate ==
    /\ pc = "loop"
    /\ total_duration < target_duration
    /\ \E mem1, mem2, raises \in BOOLEAN :
       \E pick \in PickRange(ThePlanner) :
       \E duration \in NormalDurations :
          LET p == PlannerIteration(ThePlanner, video_duration, timestamps,
                                    mem1, mem2, pick, duration, raises)
          IN /\ SetPlanner(p)
             /\ pc' = IF p.loop_exit = "none" THEN "loop" ELSE "after_loop"
    /\ UNCHANGED <<inputs, video, timestamps, parse_error, target_duration,
                   placement_vars, handoff, outcome, aux_vars, io_vars>>

\* line 188: the loop condition fails
LoopEnd ==
    /\ pc = "loop"
    /\ ~(total_duration < target_duration)
    /\ loop_exit' = "target"
    /\ pc' = "after_loop"
    /\ UNCHANGED <<inputs, video, timestamps, parse_error, target_duration,
                   current_time, total_duration, effect_counts, total_clips,
                   clips_with_transitions, used_fallback,
                   placement_vars, handoff, outcome, aux_vars, io_vars>>

\* lines 246-255: the zero-segment check and the transition sample
AfterLoop ==
    /\ pc = "after_loop"
    /\ IF InsufficientMaterial(clips_with_transitions)
       THEN /\ pc' = "finally"
            /\ outcome' = "fatal"
            /\ UNCHANGED transition_indices
       ELSE /\ \E s \in Samples(Len(clips_with_transitions)) :
                   transition_indices' = s
            /\ pc' = "place"
            /\ UNCHANGED outcome
    /\ UNCHANGED <<inputs, video, timestamps, parse_error, target_duration,
                   planner_vars, i, final_clips, closed, handoff, aux_vars, io_vars>>

\* lines 258-273: one iteration of the placement loop.  The statement
\* i += 1 of line 265 changes the loop variable for the rest of this
\* iteration only: range() supplies the next index regardless.
Place ==
    /\ pc = "place"
    /\ i < Len(clips_with_transitions)
    /\ IF i < Len(clips_with_transitions) - 1 /\ i \in transition_indices
       THEN /\ \E raises \in BOOLEAN :
                   final_clips' = Append(final_clips, apply_crossfade_transition(i, raises))
            /\ closed' = closed \cup {i}
       ELSE /\ final_clips' = IF (i - 1) \notin transition_indices
                               THEN Append(final_clips, <<i>>)
                               ELSE final_clips
            /\ closed' = IF i > 0 THEN closed \cup {i - 1} ELSE closed
    /\ i' = i + 1
    /\ UNCHANGED <<inputs, pc, video, timestamps, parse_error, target_duration,
                   planner_vars, transition_indices, handoff, outcome, aux_vars, io_vars>>

\* lines 275-305: concatenate, trim, add audio, resize and write the file
Render ==
    /\ pc = "place"
    /\ i = Len(clips_with_transitions)
    /\ \E result \in {"concat_raises", "write_raises", "ok"} :
          /\ final_clip' = IF result = "concat_raises" THEN "none" ELSE "open"
          /\ handoff' = (result # "concat_raises")
          /\ outcome' = IF result = "ok" THEN "rendered" ELSE "fatal"
    /\ pc' = "finally"
    /\ UNCHANGED <<inputs, video, timestamps, parse_error, target_duration,
                   planner_vars, placement_vars, aux_vars, choice>>

\* the close() calls of the finally block that may raise: a raising call
\* leaves its handle unreleased and ends the block at the handler of line 328
CloseOutcomes ==
    {"ok"} \cup (IF video = "open" THEN {"video_raises"} ELSE {})
           \cup (IF final_clip = "open" THEN {"final_clip_raises"} ELSE {})

\* lines 315-329: the finally block.  A clip.close() that raises is passed
\* over (lines 323-326).
Cleanup ==
    /\ pc = "finally"
    /\ \E result \in CloseOutcomes :
          /\ video' = IF video = "open" /\ result # "video_raises"
                       THEN "closed" ELSE video
          /\ final_clip' = IF final_clip = "open" /\ result = "ok"
                            THEN "closed" ELSE final_clip
          /\ closed' = IF result = "ok"
                        THEN closed \cup (0..(Len(clips_with_transitions) - 1))
                        ELSE closed
    /\ pc' = "done"
    /\ UNCHANGED <<inputs, timestamps, parse_error, target_duration,
                   planner_vars, transition_indices, i, final_clips, handoff,
                   outcome, aux_vars, choice>>

Next ==
    \/ Preflight
    \/ Prompt
    \/ Open
    \/ Iterate
    \/ LoopEnd
    \/ AfterLoop
    \/ Place
    \/ Render
    \/ Cleanup

Spec == Init /\ [][Next]_vars

(***************************************************************************)
(* The parser on its own: read_timestamps over every marker file of at     *)
(* most MaxLines lines.                                                    *)
(***************************************************************************)
LineSet ==
    { Marker(5, 8), Marker(12, 20), Marker(10, 5), Marker(3, 50), Marker(25, 26),
      <<TDec(45), T(6)>>,
      <<TBad, T(3)>>, <<T(1), TBad>>, <<T(1)>>, <<T(1), T(2), T(3)>>,
      <<<<IntField(0), IntField(7)>>, T(9)>>,
      <<<<IntField(0), DecField(5), IntField(1)>>, T(4)>>,
      <<<<IntField(0), IntField(0), IntField(-5)>>, T(2)>> }

MarkerFiles == UNION {[1..n -> LineSet] : n \in 0..MaxLines}

InitParse ==
    /\ lines \in MarkerFiles
    /\ video_duration \in {60, 200}
    /\ file_readable \in BOOLEAN
    /\ video_openable = TRUE
    /\ audio_path = "none"
    /\ audio_duration = 0
    /\ pc = "parse"
    /\ FreshRun

\* line 169: timestamps = read_timestamps(timestamp_path, video.duration)
ParseFile ==
    /\ pc = "parse"
    /\ LET r == read_timestamps(lines, file_readable, video_duration)
       IN /\ timestamps' = r.v
          /\ parse_error' = ~r.ok
    /\ pc' = "parsed"
    /\ UNCHANGED <<inputs, video, target_duration, planner_vars, placement_vars,
                   handoff, outcome, aux_vars, io_vars>>

SpecParse == InitParse /\ [][ParseFile]_vars

(***************************************************************************)
(* The cursor on its own: get_next_valid_timestamp over sorted interval    *)
(* lists, cursors and gaps.                                                *)
(***************************************************************************)
CursorLists ==
    { <<>>,
      << <<50, 80>>, <<120, 200>> >>,
      << <<20, 40>>, <<40, 60>>, <<60, 200>>, <<70, 30>>, <<90, 110>> >>,
      << <<50, 80>>, <<50, 60>>, <<210, 220>> >>,
      << <<10, 30>> >> }

InitCursor ==
    /\ timestamps \in CursorLists
    /\ current_time \in {10 * t : t \in 0..MaxCursor}
    /\ min_gap \in {0, 10, MIN_GAP}
    /\ next_ts = None
    /\ pc = "query"
    /\ lines = <<>>
    /\ video_duration = 250
    /\ file_readable = TRUE
    /\ video_openable = TRUE
    /\ audio_path = "none"
    /\ audio_duration = 0
    /\ video = "open"
    /\ parse_error = FALSE
    /\ total_duration = 0
    /\ effect_counts = InitialPlanner.effect_counts
    /\ total_clips = 0
    /\ clips_with_transitions = <<>>
    /\ used_fallback = FALSE
    /\ loop_exit = "none"
    /\ target_duration = 0
    /\ transition_indices = {}
    /\ i = 0
    /\ final_clips = <<>>
    /\ closed = {}
    /\ handoff = FALSE
    /\ outcome = "running"
    /\ choice = "unset"
    /\ final_clip = "none"
    /\ twin = InitialPlanner
    /\ twin_indices = {}

Query ==
    /\ pc = "query"
    /\ next_ts' = get_next_valid_timestamp(current_time, timestamps, min_gap)
    /\ pc' = "queried"
    /\ UNCHANGED <<inputs, video, timestamps, parse_error, target_duration,
                   planner_vars, placement_vars, handoff, outcome, twin,
                   twin_indices, min_gap, io_vars>>

SpecCursor == InitCursor /\ [][Query]_vars

(***************************************************************************)
(* Two planner runs over the same inputs and the same random draws; the    *)
(* resource-guard readings and the collaborator outcomes of each run are   *)
(* its own.                                                                *)
(***************************************************************************)
TwinScenarios == {sc \in Scenarios : sc.lines # LongFile}

InitTwin ==
    /\ \E sc \in TwinScenarios :
          /\ lines = sc.lines
          /\ video_duration = sc.vd
          /\ audio_path = sc.apath
          /\ audio_duration = sc.adur
          /\ timestamps = read_timestamps(sc.lines, TRUE, sc.vd).v
          /\ target_duration = TargetDuration(sc.apath, sc.adur, sc.vd)
    /\ file_readable = TRUE
    /\ video_openable = TRUE
    /\ pc = "twin_loop"
    /\ video = "open"
    /\ parse_error = FALSE
    /\ current_time = InitialPlanner.current_time
    /\ total_duration = InitialPlanner.total_duration
    /\ effect_counts = InitialPlanner.effect_counts
    /\ total_clips = InitialPlanner.total_clips
    /\ clips_with_transitions = InitialPlanner.clips
    /\ used_fallback = InitialPlanner.used_fallback
    /\ loop_exit = InitialPlanner.loop_exit
    /\ transition_indices = {}
    /\ i = 0
    /\ final_clips = <<>>
    /\ closed = {}
    /\ handoff = FALSE
    /\ outcome = "running"
    /\ choice = "unset"
    /\ final_clip = "none"
    /\ twin = InitialPlanner
    /\ twin_indices = {}
    /\ next_ts = None
    /\ min_gap = MIN_GAP

\* lines 188-244 for a run that may already have left its loop
LoopStep(p, mem1, mem2, pick, duration, raises) ==
    IF p.loop_exit # "none" THEN p
    ELSE IF ~(p.total_duration < target_duration) THEN [p EXCEPT !.loop_exit = "target"]
    ELSE PlannerIteration(p, video_duration, timestamps, mem1, mem2, pick,
                          duration, raises)

\* the k-th iteration of both runs, on the k-th draws
TwinIterate ==
    /\ pc = "twin_loop"
    /\ loop_exit = "none" \/ twin.loop_exit = "none"
    /\ \E mem1, mem2, raises, tmem1, tmem2, traises \in BOOLEAN :
       \E pick \in PickRange(IF loop_exit = "none" THEN ThePlanner ELSE twin) :
       \E duration \in NormalDurations :
          /\ SetPlanner(LoopStep(ThePlanner, mem1, mem2, pick, duration, raises))
          /\ twin' = LoopStep(twin, tmem1, tmem2, pick, duration, traises)
    /\ UNCHANGED <<inputs, pc, video, timestamps, parse_error, target_duration,
                   placement_vars, handoff, outcome, twin_indices, next_ts, min_gap,
                   io_vars>>

\* lines 251-255 in both runs: equal lists are sampled by the same draws
TwinSample ==
    /\ pc = "twin_loop"
    /\ loop_exit # "none" /\ twin.loop_exit # "none"
    /\ \E s \in Samples(Len(clips_with_transitions)) :
       \E t \in Samples(Len(twin.clips)) :
          /\ Len(twin.clips) = Len(clips_with_transitions) => t = s
          /\ transition_indices' = s
          /\ twin_indices' = t
    /\ pc' = "twin_done"
    /\ UNCHANGED <<inputs, video, timestamps, parse_error, target_duration,
                   planner_vars, i, final_clips, closed, handoff, outcome,
                   twin, next_ts, min_gap, io_vars>>

SpecTwin == InitTwin /\ [][TwinIterate \/ TwinSample]_vars

(***************************************************************************)
(* Properties.                                                             *)
(***************************************************************************)
WindowEnd(c) == c.start + c.ext

NoOverlap ==
    \A j, k \in DOMAIN clips_with_transitions :
        j < k => WindowEnd(clips_with_transitions[j]) <= clips_with_transitions[k].start

\* a step that accepts a segment: its window starts min_gap after the cursor
\* the previous segment returned
GapStep ==
    Len(clips_with_transitions') = Len(clips_with_transitions) + 1 =>
        clips_with_transitions'[Len(clips_with_transitions')].start
            >= current_time + MIN_GAP

\* C1: no two accepted segments have overlapping extraction windows
\* [start, start + ext), and every accepted segment's window starts at or
\* after the cursor value returned for the previous segment plus the 2 s
\* minimum gap.
C1_NoOverlappingWindows == []NoOverlap /\ [][GapStep]_vars

\* C1 witness: two accepted segments, the later one starting exactly min_gap
\* after the earlier one's window.
C1_Witness ==
    \E k \in DOMAIN clips_with_transitions :
        /\ k > 1
        /\ clips_with_transitions[k].start
              = WindowEnd(clips_with_transitions[k - 1]) + MIN_GAP

InstructionsOf(seg) == {a \in DOMAIN final_clips :
                           \E b \in DOMAIN final_clips[a] : final_clips[a][b] = seg}

Segments == 0..(Len(clips_with_transitions) - 1)

\* the placement loop has processed every index
PlacementDone ==
    /\ clips_with_transitions # <<>>
    /\ i = Len(clips_with_transitions)

\* C2: transition placement never assigns a segment to two different render
\* instructions.
C2_OneInstructionPerSegment ==
    \A seg \in Segments : Cardinality(InstructionsOf(seg)) <= 1

\* C3: once placement is done every accepted segment appears in at least
\* one render instruction, and the instructions are in ascending order of
\* their first segment's index.
C3_AllSegmentsInOrder ==
    PlacementDone =>
        /\ \A seg \in Segments : InstructionsOf(seg) # {}
        /\ \A a, b \in DOMAIN final_clips :
               a < b => final_clips[a][1] < final_clips[b][1]

\* C4: the list read_timestamps returns is sorted ascending by start and
\* every interval satisfies 0 <= start < end <= video_duration.
C4_SortedAndBounded ==
    (pc = "parsed" /\ ~parse_error) =>
        /\ \A j, k \in DOMAIN timestamps :
               j < k => timestamps[j][1] <= timestamps[k][1]
        /\ \A k \in DOMAIN timestamps :
               /\ 0 <= timestamps[k][1]
               /\ timestamps[k][1] < timestamps[k][2]
               /\ timestamps[k][2] <= video_duration

\* a line of the form "H:M:S --> H:M:S" with integer hours and minutes
WellFormedTime(ts) ==
    /\ Len(ts) = 3
    /\ ts[1].k = "int"
    /\ ts[2].k = "int"
    /\ ts[3].k \in {"int", "dec"}
WellFormedLine(l) == Len(l) = 2 /\ WellFormedTime(l[1]) /\ WellFormedTime(l[2])
SecondsOf(ts) ==
    ts[1].v * 36000 + ts[2].v * 600 + (IF ts[3].k = "int" THEN 10 * ts[3].v ELSE ts[3].v)
IntervalOf(l) == <<SecondsOf(l[1]), Min(SecondsOf(l[2]), video_duration)>>
KeptLines == {k \in DOMAIN lines :
                 WellFormedLine(lines[k]) /\ SecondsOf(lines[k][1]) < video_duration}

ValidIndices == {k \in DOMAIN timestamps : timestamps[k][1] >= current_time + min_gap}

\* C6: get_next_valid_timestamp returns the first interval in list order
\* whose start >= current_time + min_gap, and None exactly when there is
\* none; on [(5,8),(12,20)] with min_gap 2 it returns (5,8) from 0, (12,20)
\* from 8 and None from 19.
C6_FirstValidInterval ==
    pc = "queried" =>
        /\ (next_ts = None) <=> (ValidIndices = {})
        /\ \A k \in ValidIndices :
               (\A j \in ValidIndices : k <= j) => next_ts = timestamps[k]
        /\ (timestamps = << <<50, 80>>, <<120, 200>> >> /\ min_gap = 20) =>
               /\ current_time = 0 => next_ts = <<50, 80>>
               /\ current_time = 80 => next_ts = <<120, 200>>
               /\ current_time = 190 => next_ts = None

\* C6 witness: the query of the example from cursor 3 s has returned (5,8),
\* the interval that starts exactly at current_time + min_gap.
C6_Witness ==
    /\ pc = "queried"
    /\ timestamps = << <<50, 80>>, <<120, 200>> >>
    /\ min_gap = 20
    /\ current_time = 30
    /\ next_ts = <<50, 80>>

\* C7: a planner loop that ends with zero accepted segments ends the run in
\* the fatal error state, with no transition placement, no concatenation
\* and no encoder handoff.
C7_ZeroSegmentsIsFatal ==
    (loop_exit # "none" /\ clips_with_transitions = <<>>) =>
        /\ pc \in {"after_loop", "finally", "done"}
        /\ pc # "after_loop" => outcome = "fatal"
        /\ transition_indices = {}
        /\ final_clips = <<>>
        /\ ~handoff

\* C7 witness: a finished run whose first generator call was rejected.
C7_Witness ==
    /\ pc = "done"
    /\ loop_exit = "rejected"
    /\ clips_with_transitions = <<>>
    /\ outcome = "fatal"

\* C8: when memory is still low after the forced reclamation and the
\* re-check, the run prompts or aborts; it does not go on to transition
\* placement and the render handoff with the partial plan.  (The code has
\* no prompt at this point, so going on is the only way to violate it.)
C8_LowMemoryStopsRun ==
    loop_exit = "memory" => (pc # "place" /\ ~handoff)

RealizedCount(kind) ==
    Cardinality({k \in DOMAIN clips_with_transitions :
                    clips_with_transitions[k].effect = kind})

\* C9: after n > 0 accepted segments no kind's realized share count/n
\* exceeds its ceiling (0.6, 0.2, 0.2) by more than 1/n; while the loop
\* runs the counters are the realized counts.
C9_ShareWithinSlack ==
    LET n == Len(clips_with_transitions)
    IN /\ n > 0 =>
             /\ 10 * RealizedCount("normal") <= 6 * n + 10
             /\ 5 * RealizedCount("slow") <= n + 5
             /\ 5 * RealizedCount("freeze") <= n + 5
       /\ loop_exit = "none" =>
             \A kind \in {"normal", "slow", "freeze"} :
                 effect_counts[kind] = RealizedCount(kind)

\* C9 witness: six accepted segments, Normal above its ceiling of 0.6.
C9_Witness ==
    /\ Len(clips_with_transitions) >= 6
    /\ 10 * RealizedCount("normal") > 6 * Len(clips_with_transitions)

\* C10: two runs over the same inputs and the same random draws produce the
\* same plan (segments, effects, transition set), whatever their
\* resource-guard readings are; stated for runs that both have a plan.
C10_IdenticalPlans ==
    (pc = "twin_done" /\ clips_with_transitions # <<>> /\ twin.clips # <<>>) =>
        /\ clips_with_transitions = twin.clips
        /\ transition_indices = twin_indices

AllSegmentsClosed == (0..(Len(clips_with_transitions) - 1)) \subseteq closed

\* C11: on every exit path after the source video was opened, the cleanup
\* has released the source video and every segment handle of the plan when
\* the run is over.
C11_CleanupReleasesAll ==
    (pc = "done" /\ video # "none") =>
        /\ video = "closed"
        /\ AllSegmentsClosed

(***************************************************************************)
(* The run under fairness: the process keeps executing and the operator    *)
(* answers every prompt, so each of these steps is taken when it stays     *)
(* possible.  Nothing checked here depends on Open being taken.  The       *)
(* scenarios are the short ones.                                           *)
(***************************************************************************)
InitLive ==
    /\ Init
    /\ lines # LongFile

Fairness ==
    /\ WF_vars(Preflight)
    /\ WF_vars(Prompt)
    /\ WF_vars(Iterate)
    /\ WF_vars(LoopEnd)
    /\ WF_vars(AfterLoop)
    /\ WF_vars(Place)
    /\ WF_vars(Render)
    /\ WF_vars(Cleanup)

SpecLive == InitLive /\ [][Next]_vars /\ Fairness

\* C12: the Resource Guard never blocks indefinitely: once it has reported
\* low memory and the confirmation prompt is shown, the run leaves the
\* prompt (continues or ends), whatever the operator answers.
C12_GuardDecides == (pc = "prompt") ~> (pc # "prompt")

\* C13: if the operator declines at the pre-flight prompt, the run ends
\* there: the source is never opened, nothing is parsed or planned and
\* nothing is handed to the encoder.
C13_DeclineEndsRun ==
    choice = "n" =>
        /\ outcome = "declined"
        /\ pc = "done"
        /\ video = "none"
        /\ timestamps = <<>>
        /\ total_clips = 0
        /\ clips_with_transitions = <<>>
        /\ final_clips = <<>>
        /\ ~handoff

\* C13 witness: the operator answered 'n' (in either case) and the run is over.
C13_Witness ==
    /\ choice = "n"
    /\ pc = "done"
    /\ outcome = "declined"

\* the target duration has been fixed (line 183 is behind the run)
TargetFixed == pc \in {"loop", "after_loop", "place"}

\* a step that starts an iteration of the planner loop
IterationStarts ==
    /\ pc = "loop"
    /\ total_clips' = total_clips + 1 \/ loop_exit' = "memory"

LoopGuardStep == IterationStarts => total_duration < target_duration

\* C14 as stated: the target is the audio track's duration whenever an
\* audio track is provided, the video's duration otherwise, capped at 60 s;
\* an iteration only starts while total_duration < target_duration.
C14_TargetFromProvidedAudio ==
    /\ [](TargetFixed =>
             target_duration = IF audio_path # "none"
                               THEN Min(audio_duration, MAX_TARGET)
                               ELSE Min(video_duration, MAX_TARGET))
    /\ [][LoopGuardStep]_vars

\* C14 amended: the target is the audio track's duration when an audio
\* track is provided and loads, and the video's duration otherwise (no audio
\* track, or AudioFileClip raises), capped at 60 s in both cases; an
\* iteration only starts while total_duration < target_duration.
C14_TargetFromLoadedAudio ==
    /\ [](TargetFixed =>
             target_duration = IF audio_path = "ok"
                               THEN Min(audio_duration, MAX_TARGET)
                               ELSE Min(video_duration, MAX_TARGET))
    /\ [][LoopGuardStep]_vars

\* C14 witness: an audio track longer than 60 s, the target capped at 60 s,
\* and a segment accepted under it.
C14_Witness ==
    /\ TargetFixed
    /\ audio_path = "ok"
    /\ audio_duration > MAX_TARGET
    /\ target_duration = MAX_TARGET
    /\ clips_with_transitions # <<>>

\* C15: the cursor never decreases from one step of the run to the next.
C15_CursorMonotone == [][current_time' >= current_time]_vars

Effects == {clips_with_transitions[k].effect : k \in DOMAIN clips_with_transitions}

\* C15 witness: the cursor has been advanced by a Normal, a SlowMotion and a
\* Freeze segment.
C15_Witness ==
    /\ Effects = {"normal", "slow", "freeze"}
    /\ current_time > clips_with_transitions[Len(clips_with_transitions)].start

\* the duration of one render instruction: the segment's own, or for a
\* crossfade pair the composite's (second clip starts CROSSFADE before the
\* first one ends, line 141)
InstructionDuration(ins) ==
    IF Len(ins) = 1
    THEN clips_with_transitions[ins[1] + 1].duration
    ELSE clips_with_transitions[ins[1] + 1].duration - CROSSFADE
         + clips_with_transitions[ins[2] + 1].duration

RECURSIVE SumDurations(_)
SumDurations(instrs) ==
    IF instrs = <<>> THEN 0
    ELSE InstructionDuration(Head(instrs)) + SumDurations(Tail(instrs))

\* the duration of concatenate_videoclips(final_clips) at line 276
StitchedDuration == SumDurations(final_clips)

\* C16: when the loop ended because total_duration reached target_duration,
\* the stitched timeline is at least target_duration long.
C16_StitchedReachesTarget ==
    (PlacementDone /\ loop_exit = "target") => StitchedDuration >= target_duration

\* an iteration that ran the selector and a generator and accepted nothing
RejectingIteration ==
    /\ pc = "loop"
    /\ total_clips' = total_clips + 1
    /\ Len(clips_with_transitions') = Len(clips_with_transitions)

CountSum(counts) == counts.normal + counts.slow + counts.freeze

\* C17: an iteration whose generator returns (None, None) ends the loop in
\* that iteration: one kind was tried, the cursor, the accumulated duration
\* and the segment list are unchanged, and no iteration follows.
C17_RejectionStopsLoop ==
    /\ [][RejectingIteration =>
             /\ loop_exit' = "rejected"
             /\ pc' = "after_loop"
             /\ CountSum(effect_counts') = CountSum(effect_counts) + 1
             /\ current_time' = current_time
             /\ total_duration' = total_duration
             /\ clips_with_transitions' = clips_with_transitions]_vars
    /\ [](loop_exit = "rejected" => pc # "loop")

\* C17 witness: the loop was stopped by a rejection after segments had been
\* accepted and while the target was not reached.
C17_Witness ==
    /\ pc = "after_loop"
    /\ loop_exit = "rejected"
    /\ clips_with_transitions # <<>>
    /\ total_duration < target_duration

\* every accepted segment starts at the start of a marker interval, and the
\* starts are strictly increasing: no interval is used twice
OneSegmentPerInterval ==
    /\ \A k \in DOMAIN clips_with_transitions :
          \E j \in DOMAIN timestamps :
             timestamps[j][1] = clips_with_transitions[k].start
    /\ \A k \in 2..Len(clips_with_transitions) :
          clips_with_transitions[k - 1].start < clips_with_transitions[k].start
    /\ Len(clips_with_transitions) <= Len(timestamps)

\* the number of iterations is bounded by the number of intervals
IterationsBounded ==
    /\ total_clips <= Len(clips_with_transitions) + 1
    /\ total_clips <= Len(timestamps) + 1

\* the loop is over for one of its three reasons
LoopExited ==
    /\ pc = "after_loop"
    /\ loop_exit \in {"target", "rejected", "memory"}
    /\ loop_exit = "target" => total_duration >= target_duration
    /\ loop_exit = "rejected" => total_clips = Len(clips_with_transitions) + 1

\* C18: the planner loop terminates: once entered it is eventually left,
\* with total_duration >= target_duration, on a generator rejection or on
\* the resource guard, after at most one accepted segment per interval.
C18_LoopTerminates ==
    /\ [](OneSegmentPerInterval /\ IterationsBounded)
    /\ (pc = "loop") ~> LoopExited

\* C18 witness: the loop ended on the target with the resource guard
\* passing in every iteration, after several segments.
C18_Witness ==
    /\ pc = "after_loop"
    /\ loop_exit = "target"
    /\ Len(clips_with_transitions) >= 2
    /\ total_clips = Len(clips_with_transitions)

\* C19: whenever the loop is about to draw an effect the ceiling-based
\* candidate set is non-empty, and the fallback list is never used.
C19_FallbackNeverUsed ==
    /\ ~used_fallback
    /\ pc = "loop" => CeilingEffects(effect_counts, total_clips + 1) # <<>>

\* C19 witness: a draw from a candidate set that two kinds have left
\* because their shares reached the ceiling.
C19_Witness ==
    /\ pc = "loop"
    /\ total_duration < target_duration
    /\ total_clips >= 3
    /\ Len(CeilingEffects(effect_counts, total_clips + 1)) = 1

\* C20: while the render instructions have not been handed to the
\* concatenation and the encoder, no segment handle that is part of a render
\* instruction has been released.
C20_NoReleaseBeforeHandoff ==
    pc = "place" => \A seg \in closed : InstructionsOf(seg) = {}

====
